---- MODULE Spec2Model ----
(***************************************************************************)
(* generate_embedded_models.py: the generator (main) and the C++ routine   *)
(* extractEmbeddedImagesToTemp that it emits, as one state machine.        *)
(* File names, symbol names and hex literals are sequences of one-character*)
(* strings; file contents are sequences of bytes (0..255).                 *)
(***************************************************************************)
EXTENDS Integers, Sequences, FiniteSets, TLC

(* ------------------------------ bounds --------------------------------- *)
\* most entries in the source directory
MaxEntries == 2
\* length of the longest file (two full lines of literals and one more byte)
MaxLen == 33
\* largest len(sys.argv) tried (program name, two arguments, one extra)
MaxArgc == 4

(* ------------------------- program constants --------------------------- *)
\* range(0, len(image_data), 16)
ChunkSize == 16
\* len(sys.argv) < 3
MinArgc == 3

(* --------------------------- characters -------------------------------- *)
\* code points of the characters that occur in the modelled names
Ord(c) ==
  CASE c = "-" -> 45  [] c = "." -> 46  [] c = "B" -> 66  [] c = "_" -> 95
    [] c = "a" -> 97  [] c = "b" -> 98  [] c = "e" -> 101 [] c = "g" -> 103
    [] c = "i" -> 105 [] c = "m" -> 109 [] c = "n" -> 110 [] c = "p" -> 112
    [] c = "t" -> 116 [] c = "x" -> 120

Min(a, b) == IF a < b THEN a ELSE b

\* str.endswith
EndsWith(s, suffix) ==
  /\ Len(s) >= Len(suffix)
  /\ SubSeq(s, Len(s) - Len(suffix) + 1, Len(s)) = suffix

\* ".png"
PngSuffix == <<".", "p", "n", "g">>

\* str.replace for a one-character pattern
Replace(s, old, new) == [i \in 1..Len(s) |-> IF s[i] = old THEN new ELSE s[i]]

\* "image_"
SymbolPrefix == <<"i", "m", "a", "g", "e", "_">>

\* f"image_{image_file.replace('-', '_').replace('.', '_')}", with str.lower()
\* applied as well (a derivation that folds case)
VarNameFoldingCase(image_file) ==
  SymbolPrefix \o Replace(Replace(Replace(image_file, "-", "_"), ".", "_"), "B", "b")

\* f"image_{image_file.replace('-', '_').replace('.', '_')}"
VarName(image_file) ==
  SymbolPrefix \o Replace(Replace(image_file, "-", "_"), ".", "_")

\* Python's str < str: the first differing code point decides, a proper
\* prefix is smaller
RECURSIVE StrLess(_, _)
StrLess(a, b) ==
  IF b = <<>> THEN FALSE
  ELSE IF a = <<>> THEN TRUE
  ELSE IF Ord(Head(a)) # Ord(Head(b)) THEN Ord(Head(a)) < Ord(Head(b))
  ELSE StrLess(Tail(a), Tail(b))

\* insertion of one name into a sorted list
RECURSIVE Insert(_, _)
Insert(x, sorted) ==
  IF sorted = <<>> THEN <<x>>
  ELSE IF StrLess(Head(sorted), x) THEN <<Head(sorted)>> \o Insert(x, Tail(sorted))
  ELSE <<x>> \o sorted

\* the list left as os.listdir returned it
Unsorted(names) == names

\* image_files.sort()
RECURSIVE Sort(_)
Sort(names) ==
  IF names = <<>> THEN <<>> ELSE Insert(Head(names), Sort(Tail(names)))

\* the loop that appends the names ending with ".png", in listing order
RECURSIVE FilterPng(_)
FilterPng(names) ==
  IF names = <<>> THEN <<>>
  ELSE IF EndsWith(Head(names), PngSuffix)
       THEN <<Head(names)>> \o FilterPng(Tail(names))
       ELSE FilterPng(Tail(names))

(* ------------------------------ bytes ---------------------------------- *)
HexDigits ==
  <<"0", "1", "2", "3", "4", "5", "6", "7", "8", "9", "a", "b", "c", "d", "e", "f">>

\* f"0x{b:02x}"
HexLiteral(b) == <<"0", "x", HexDigits[(b \div 16) + 1], HexDigits[(b % 16) + 1]>>

\* image_data[i:i+16] with a slice that runs one byte over
ChunkOverlapping(data, i) == SubSeq(data, i + 1, Min(i + ChunkSize + 1, Len(data)))

\* image_data[i:i+16]: bytes i .. i+15 (0-based), cut at the end of the data
Chunk(data, i) == SubSeq(data, i + 1, Min(i + ChunkSize, Len(data)))

\* the lines written by `for i in range(0, len(image_data), 16)`, each the
\* list of the literals of one chunk
RECURSIVE HexLines(_, _)
HexLines(data, i) ==
  IF i >= Len(data) THEN <<>>
  ELSE LET chunk == Chunk(data, i)
       IN <<[k \in 1..Len(chunk) |-> HexLiteral(chunk[k])]>>
            \o HexLines(data, i + ChunkSize)

\* the value of one hexadecimal digit
HexValue(c) == CHOOSE v \in 0..15 : HexDigits[v + 1] = c

\* 0xhh as a number
LiteralValue(lit) == 16 * HexValue(lit[3]) + HexValue(lit[4])

\* the elements of an array initializer, in order
RECURSIVE Flatten(_)
Flatten(lines) ==
  IF lines = <<>> THEN <<>> ELSE Head(lines) \o Flatten(Tail(lines))

\* the bytes an array initializer denotes
ArrayBytes(lines) ==
  LET literals == Flatten(lines)
  IN [k \in 1..Len(literals) |-> LiteralValue(literals[k])]

(* ------------------------------ inputs --------------------------------- *)
\* the names a directory entry can have: two that map to one symbol, two that
\* differ in case only, and two that do not end with ".png"
NameUniverse ==
  { <<"a", "-", "b", ".", "p", "n", "g">>,
    <<"a", ".", "b", ".", "p", "n", "g">>,
    <<"B", ".", "p", "n", "g">>,
    <<"b", ".", "p", "n", "g">>,
    <<"b", ".", "t", "x", "t">>,
    <<"p", "n", "g">> }

\* a file of n bytes
FileBytes(n) == [k \in 1..n |-> (37 * k + 11 * n) % 256]

\* what an entry can be: a readable file of 0, 16 or MaxLen bytes, or an
\* entry whose open(..., "rb") raises (a subdirectory, a file without read
\* permission)
EntryUniverse ==
  { [readable |-> TRUE, data |-> FileBytes(n)] : n \in {0, ChunkSize, MaxLen} }
    \cup { [readable |-> FALSE, data |-> <<>>] }

Directories ==
  UNION { [S -> EntryUniverse] :
            S \in { T \in SUBSET NameUniverse : Cardinality(T) <= MaxEntries } }

\* the orders in which os.listdir can return the entries of a directory
Orderings(S) ==
  { s \in [1..Cardinality(S) -> S] : \A j, k \in 1..Cardinality(S) : j # k => s[j] # s[k] }

\* the output path before the run: no file, or a file left by an earlier build
OutputStates ==
  { [exists |-> FALSE, content |-> <<>>],
    [exists |-> TRUE, content |-> <<[kind |-> "old"]>>] }

(* ------------------------------- state --------------------------------- *)
VARIABLES
  argc,         \* len(sys.argv)
  srcKind,      \* what model_dir names: "missing", "file" or "dir"
  dir,          \* the entries of model_dir: name -> entry
  out0,         \* the output path before the run
  out,          \* the output path now
  pc,           \* position of main
  status,       \* the exit status, -1 while main runs
  stdout,       \* what main printed
  listing,      \* what os.listdir returned
  listed,       \* os.listdir has been called
  image_files,  \* the list of that name
  i,            \* index of the per-file loop (1-based)
  build,        \* the consuming build of the output: "none", "ok", "error"
  xpc,          \* position of extractEmbeddedImagesToTemp
  xi,           \* its loop variable i (0-based)
  tmpCreated,   \* mkdtemp created the directory
  tmpFiles,     \* the files of the temporary directory: name -> bytes
  ret,          \* the routine's return value
  attempted,    \* the entries whose destination the routine tried to open
  cout,         \* the names reported "Extracted: "
  cerr          \* the diagnostics written to std::cerr

genVars == <<argc, srcKind, dir, out0, out, pc, status, stdout, listing, listed, image_files, i>>
extVars == <<build, xpc, xi, tmpCreated, tmpFiles, ret, attempted, cout, cerr>>
vars == <<argc, srcKind, dir, out0, out, pc, status, stdout, listing, listed, image_files, i,
          build, xpc, xi, tmpCreated, tmpFiles, ret, attempted, cout, cerr>>

\* the path mkdtemp returns
TempDir == "/tmp/chiemodel-XXXXXX"

Init ==
  /\ argc \in 1..MaxArgc
  /\ srcKind \in {"missing", "file", "dir"}
  /\ dir \in Directories
  /\ srcKind # "dir" => dir = <<>>
  /\ out0 \in OutputStates
  /\ out = out0
  /\ pc = "start"
  /\ status = -1
  /\ stdout = <<>>
  /\ listing = <<>>
  /\ listed = FALSE
  /\ image_files = <<>>
  /\ i = 0
  /\ build = "none"
  /\ xpc = "start"
  /\ xi = 0
  /\ tmpCreated = FALSE
  /\ tmpFiles = <<>>
  /\ ret = "unset"
  /\ attempted = <<>>
  /\ cout = <<>>
  /\ cerr = <<>>

(* ----------------------------- generator ------------------------------- *)
\* sys.exit(1) after a diagnostic, or an uncaught exception
Exit(code, message) ==
  /\ pc' = "exit"
  /\ status' = code
  /\ stdout' = Append(stdout, message)

\* the argument check done as len(sys.argv) < 2
CheckArgsOffByOne ==
  /\ pc = "start"
  /\ IF argc < MinArgc - 1
       THEN Exit(1, "usage")
       ELSE pc' = "check_dir" /\ UNCHANGED <<status, stdout>>
  /\ UNCHANGED <<argc, srcKind, dir, out0, out, listing, listed, image_files, i>>
  /\ UNCHANGED extVars

\* if len(sys.argv) < 3: usage, sys.exit(1)
CheckArgs ==
  /\ pc = "start"
  /\ IF argc < MinArgc
       THEN Exit(1, "usage")
       ELSE pc' = "check_dir" /\ UNCHANGED <<status, stdout>>
  /\ UNCHANGED <<argc, srcKind, dir, out0, out, listing, listed, image_files, i>>
  /\ UNCHANGED extVars

\* if not os.path.isdir(model_dir): error, sys.exit(1)
CheckDir ==
  /\ pc = "check_dir"
  /\ IF srcKind # "dir"
       THEN Exit(1, "not a directory")
       ELSE pc' = "list" /\ UNCHANGED <<status, stdout>>
  /\ UNCHANGED <<argc, srcKind, dir, out0, out, listing, listed, image_files, i>>
  /\ UNCHANGED extVars

\* for file in os.listdir(model_dir): if file.endswith(".png"): append
ListDir ==
  /\ pc = "list"
  /\ \E order \in Orderings(DOMAIN dir) :
       /\ listing' = order
       /\ image_files' = FilterPng(order)
  /\ listed' = TRUE
  /\ pc' = "check_empty"
  /\ UNCHANGED <<argc, srcKind, dir, out0, out, status, stdout, i>>
  /\ UNCHANGED extVars

\* the sort without the emptiness check before it
SortFilesUnchecked ==
  /\ pc = "check_empty"
  /\ image_files' = Sort(image_files)
  /\ pc' = "open"
  /\ UNCHANGED <<status, stdout>>
  /\ UNCHANGED <<argc, srcKind, dir, out0, out, listing, listed, i>>
  /\ UNCHANGED extVars

\* if not image_files: error, sys.exit(1); image_files.sort()
SortFiles ==
  /\ pc = "check_empty"
  /\ IF image_files = <<>>
       THEN Exit(1, "no PNG files") /\ UNCHANGED image_files
       ELSE /\ image_files' = Sort(image_files)
            /\ pc' = "open"
            /\ UNCHANGED <<status, stdout>>
  /\ UNCHANGED <<argc, srcKind, dir, out0, out, listing, listed, i>>
  /\ UNCHANGED extVars

\* the #include lines
HeaderSection == [kind |-> "header"]

\* open(output_file, "w") truncates or creates the file, then the header is
\* written; an open that raises (the path cannot be written) ends the run
\* with a traceback and status 1
OpenOutput ==
  /\ pc = "open"
  /\ \E opens \in BOOLEAN :
       IF opens
         THEN /\ out' = [exists |-> TRUE, content |-> <<HeaderSection>>]
              /\ i' = 1
              /\ pc' = "arrays"
              /\ UNCHANGED <<status, stdout>>
         ELSE Exit(1, "traceback") /\ UNCHANGED <<out, i>>
  /\ UNCHANGED <<argc, srcKind, dir, out0, listing, listed, image_files>>
  /\ UNCHANGED extVars

\* the comment, the declaration, the data lines and the closing line of one
\* file's array
ArraySection(image_file, image_data) ==
  [kind |-> "array", name |-> image_file, sym |-> VarName(image_file),
   lines |-> HexLines(image_data, 0)]

\* the output file extended by one section
Write(section) == out' = [out EXCEPT !.content = Append(@, section)]

\* the loop body with the comment and the declaration written before the
\* image is read
WriteArrayDeclaringFirst ==
  /\ pc = "arrays"
  /\ i <= Len(image_files)
  /\ LET image_file == image_files[i] IN
       IF dir[image_file].readable
         THEN /\ Write(ArraySection(image_file, dir[image_file].data))
              /\ i' = i + 1
              /\ UNCHANGED <<pc, status, stdout>>
         ELSE /\ Write([kind |-> "declaration", name |-> image_file])
              /\ Exit(1, "traceback")
              /\ UNCHANGED i
  /\ UNCHANGED <<argc, srcKind, dir, out0, listing, listed, image_files>>
  /\ UNCHANGED extVars

\* one pass of `for image_file in image_files`: read the image, write its
\* array; a read that raises leaves the with block, which closes the output
\* file with what was written so far
WriteArray ==
  /\ pc = "arrays"
  /\ i <= Len(image_files)
  /\ LET image_file == image_files[i] IN
       IF dir[image_file].readable
         THEN /\ Write(ArraySection(image_file, dir[image_file].data))
              /\ i' = i + 1
              /\ UNCHANGED <<pc, status, stdout>>
         ELSE Exit(1, "traceback") /\ UNCHANGED <<out, i>>
  /\ UNCHANGED <<argc, srcKind, dir, out0, listing, listed, image_files>>
  /\ UNCHANGED extVars

\* { "name", var_name, sizeof(var_name) },
TableRow(image_file) ==
  [name |-> image_file, data |-> VarName(image_file), size |-> VarName(image_file)]

\* const EmbeddedImage embedded_images[] = { one row per image_file };
TableSection(files) ==
  [kind |-> "table", rows |-> [k \in 1..Len(files) |-> TableRow(files[k])]]

\* the second `for image_file in image_files`, after the per-file loop ends
WriteTable ==
  /\ pc = "arrays"
  /\ i > Len(image_files)
  /\ Write(TableSection(image_files))
  /\ pc' = "count"
  /\ UNCHANGED <<argc, srcKind, dir, out0, status, stdout, listing, listed, image_files, i>>
  /\ UNCHANGED extVars

\* const int embedded_images_count = {len(image_files)};
WriteCount ==
  /\ pc = "count"
  /\ Write([kind |-> "count", value |-> Len(image_files)])
  /\ pc' = "routine"
  /\ UNCHANGED <<argc, srcKind, dir, out0, status, stdout, listing, listed, image_files, i>>
  /\ UNCHANGED extVars

\* the text of extractEmbeddedImagesToTemp, the same for every input
WriteRoutine ==
  /\ pc = "routine"
  /\ Write([kind |-> "routine"])
  /\ pc' = "close"
  /\ UNCHANGED <<argc, srcKind, dir, out0, status, stdout, listing, listed, image_files, i>>
  /\ UNCHANGED extVars

\* the with block ends, the summary is printed and main returns
Finish ==
  /\ pc = "close"
  /\ Exit(0, "generated")
  /\ UNCHANGED <<argc, srcKind, dir, out0, out, listing, listed, image_files, i>>
  /\ UNCHANGED extVars

(* ------------------- the generated unit, as compiled ------------------- *)
\* the section of one kind in a generated unit
Section(content, kind) ==
  content[CHOOSE k \in DOMAIN content : content[k].kind = kind]

\* the positions of the array definitions named sym
DefinitionsOf(content, sym) ==
  { k \in DOMAIN content : content[k].kind = "array" /\ content[k].sym = sym }

\* a translation unit compiles when every symbol it uses has exactly one
\* definition (two `static const unsigned char image_x[]` of one name are a
\* redefinition error); an array with no initializer elements is accepted
\* with size 0, as g++ and clang do
WellFormed(content) ==
  /\ \A k \in DOMAIN content :
       content[k].kind = "array" => DefinitionsOf(content, content[k].sym) = {k}
  /\ \A r \in DOMAIN Section(content, "table").rows :
       Cardinality(DefinitionsOf(content, Section(content, "table").rows[r].data)) = 1

\* embedded_images[k].data: the bytes of the array the row's symbol names
EntryData(content, row) ==
  ArrayBytes(content[CHOOSE k \in DefinitionsOf(content, row.data) : TRUE].lines)

\* embedded_images[k].size: sizeof of the array the row's symbol names
EntrySize(content, row) ==
  Len(ArrayBytes(content[CHOOSE k \in DefinitionsOf(content, row.size) : TRUE].lines))

\* the build of the consuming program compiles the generated unit
Compile ==
  /\ pc = "exit"
  /\ status = 0
  /\ build = "none"
  /\ build' = IF WellFormed(out.content) THEN "ok" ELSE "error"
  /\ UNCHANGED genVars
  /\ UNCHANGED <<xpc, xi, tmpCreated, tmpFiles, ret, attempted, cout, cerr>>

(* ----------------------------- extractor ------------------------------- *)
embedded_images == Section(out.content, "table").rows
embedded_images_count == Section(out.content, "count").value

\* mkdtemp without the nullptr check: the loop runs after a failure too
MkdtempUnchecked ==
  /\ build = "ok"
  /\ xpc = "start"
  /\ \E created \in BOOLEAN :
       /\ tmpCreated' = created
       /\ cerr' = IF created THEN cerr ELSE Append(cerr, <<"mkdtemp failed">>)
       /\ xpc' = "loop"
       /\ UNCHANGED ret
  /\ UNCHANGED genVars
  /\ UNCHANGED <<build, xi, tmpFiles, attempted, cout>>

\* char* result = mkdtemp(template_dir); if (result == nullptr) return "";
\* temp_dir = result
Mkdtemp ==
  /\ build = "ok"
  /\ xpc = "start"
  /\ \E created \in BOOLEAN :
       IF created
         THEN /\ tmpCreated' = TRUE
              /\ xpc' = "loop"
              /\ UNCHANGED <<ret, cerr>>
         ELSE /\ cerr' = Append(cerr, <<"mkdtemp failed">>)
              /\ ret' = ""
              /\ xpc' = "returned"
              /\ UNCHANGED tmpCreated
  /\ UNCHANGED genVars
  /\ UNCHANGED <<build, xi, tmpFiles, attempted, cout>>

\* the file name -> bytes map with one file written
WriteFile(files, name, bytes) ==
  [n \in DOMAIN files \cup {name} |-> IF n = name THEN bytes ELSE files[n]]

\* the loop body with `break` where the code has `continue`
ExtractEntryBreaking ==
  /\ xpc = "loop"
  /\ xi < embedded_images_count
  /\ LET entry == embedded_images[xi + 1] IN
     \E opened \in BOOLEAN :
       /\ attempted' = Append(attempted, entry.name)
       /\ IF opened
            THEN /\ tmpFiles' = WriteFile(tmpFiles, entry.name,
                                  SubSeq(EntryData(out.content, entry), 1,
                                         EntrySize(out.content, entry)))
                 /\ cout' = Append(cout, entry.name)
                 /\ xi' = xi + 1
                 /\ UNCHANGED cerr
            ELSE /\ cerr' = Append(cerr, entry.name)
                 /\ xi' = embedded_images_count
                 /\ UNCHANGED <<tmpFiles, cout>>
  /\ UNCHANGED genVars
  /\ UNCHANGED <<build, xpc, tmpCreated, ret>>

\* one pass of `for (int i = 0; i < embedded_images_count; i++)`: open
\* temp_dir/name; on failure report and continue; else write size bytes of
\* data, close, report
ExtractEntry ==
  /\ xpc = "loop"
  /\ xi < embedded_images_count
  /\ LET entry == embedded_images[xi + 1] IN
     \E opened \in BOOLEAN :
       /\ attempted' = Append(attempted, entry.name)
       /\ IF opened
            THEN /\ tmpFiles' = WriteFile(tmpFiles, entry.name,
                                  SubSeq(EntryData(out.content, entry), 1,
                                         EntrySize(out.content, entry)))
                 /\ cout' = Append(cout, entry.name)
                 /\ UNCHANGED cerr
            ELSE /\ cerr' = Append(cerr, entry.name)
                 /\ UNCHANGED <<tmpFiles, cout>>
       /\ xi' = xi + 1
  /\ UNCHANGED genVars
  /\ UNCHANGED <<build, xpc, tmpCreated, ret>>

\* return temp_dir;
Return ==
  /\ xpc = "loop"
  /\ xi >= embedded_images_count
  /\ ret' = TempDir
  /\ xpc' = "returned"
  /\ UNCHANGED genVars
  /\ UNCHANGED <<build, xi, tmpCreated, tmpFiles, attempted, cout, cerr>>

(* --------------------------- specification ----------------------------- *)
Next ==
  \/ CheckArgs
  \/ CheckDir
  \/ ListDir
  \/ SortFiles
  \/ OpenOutput
  \/ WriteArray
  \/ WriteTable
  \/ WriteCount
  \/ WriteRoutine
  \/ Finish
  \/ Compile
  \/ Mkdtemp
  \/ ExtractEntry
  \/ Return

Spec == Init /\ [][Next]_vars

(* ------------------------ vocabulary of the claims --------------------- *)
\* the entries of the source directory whose name ends with ".png"
MatchingNames ==
  { n \in DOMAIN dir :
      /\ Len(n) >= 4
      /\ n[Len(n) - 3] = "." /\ n[Len(n) - 2] = "p"
      /\ n[Len(n) - 1] = "n" /\ n[Len(n)] = "g" }

\* a precedes b in the lexicographic order of code points
LexBefore(a, b) ==
  \E k \in 1..(Min(Len(a), Len(b)) + 1) :
    /\ \A j \in 1..(k - 1) : a[j] = b[j]
    /\ \/ k > Len(a) /\ k <= Len(b)
       \/ k <= Len(a) /\ k <= Len(b) /\ Ord(a[k]) < Ord(b[k])

\* s lists exactly the names of S, in ascending lexicographic order
IsLexSortOf(s, S) ==
  /\ Len(s) = Cardinality(S)
  /\ { s[k] : k \in DOMAIN s } = S
  /\ \A j, k \in DOMAIN s : j < k => LexBefore(s[j], s[k])

\* the array definitions of the output file, in file order
OutArrays == SelectSeq(out.content, LAMBDA sec : sec.kind = "array")

HasSection(kind) == \E k \in DOMAIN out.content : out.content[k].kind = kind

\* the kinds of the sections of the output file, in file order
OutKinds == [k \in DOMAIN out.content |-> out.content[k].kind]

\* the run has passed image_files.sort()
PastSort ==
  \/ pc \in {"open", "arrays", "count", "routine", "close"}
  \/ pc = "exit" /\ listed /\ image_files # <<>>

\* the run ended with status 0
Generated == pc = "exit" /\ status = 0

\* the output path holds a complete compilation unit: header, one array per
\* matching file, table, count constant, extraction routine, in that order
CompleteUnit ==
  /\ out.exists
  /\ OutKinds = <<"header">> \o [k \in 1..Cardinality(MatchingNames) |-> "array"]
                  \o <<"table", "count", "routine">>

\* the symbol the spec derives from a file name: "image_" and the name with
\* every hyphen and every period replaced by an underscore
IsSymbolOf(sym, name) ==
  /\ Len(sym) = 6 + Len(name)
  /\ SubSeq(sym, 1, 6) = <<"i", "m", "a", "g", "e", "_">>
  /\ \A k \in DOMAIN name :
       sym[6 + k] = IF name[k] \in {"-", "."} THEN "_" ELSE name[k]

\* two names of one length whose differing positions hold neither a hyphen
\* nor a period, in either name
DifferOnlyOutside(a, b) ==
  /\ a # b
  /\ Len(a) = Len(b)
  /\ \A k \in DOMAIN a :
       a[k] # b[k] => a[k] \notin {"-", "."} /\ b[k] \notin {"-", "."}

(* -------------------------------- C1 ----------------------------------- *)
\* C1 (as claimed): for every directory with a matching file, the generated
\* unit builds, and extraction with every open succeeding leaves, for every
\* matching file, a file of that name with exactly the original bytes.
C1_RoundTrip ==
  /\ (Generated /\ build # "none") => build = "ok"
  /\ (xpc = "returned" /\ tmpCreated /\ cerr = <<>>) =>
       \A f \in MatchingNames :
         f \in DOMAIN tmpFiles /\ tmpFiles[f] = dir[f].data

\* C1, the part that holds: whenever the generated unit builds, extraction
\* with every open succeeding reproduces every matching file byte for byte
C1_RoundTripWhenBuilt ==
  (xpc = "returned" /\ tmpCreated /\ cerr = <<>>) =>
    /\ DOMAIN tmpFiles = MatchingNames
    /\ \A f \in MatchingNames : tmpFiles[f] = dir[f].data

(* -------------------------------- C2 ----------------------------------- *)
\* C2: once sorted, image_files is the ascending lexicographic order of the
\* matching names (so it does not depend on the order os.listdir returned),
\* and the arrays and the table rows written so far follow that order.
C2_SortedOrder ==
  PastSort =>
    /\ IsLexSortOf(image_files, MatchingNames)
    /\ Len(OutArrays) <= Len(image_files)
    /\ \A k \in DOMAIN OutArrays : OutArrays[k].name = image_files[k]
    /\ HasSection("table") =>
         /\ Len(Section(out.content, "table").rows) = Len(image_files)
         /\ \A k \in DOMAIN image_files :
              Section(out.content, "table").rows[k].name = image_files[k]

\* witness: a complete unit of two images that os.listdir returned in
\* descending order
C2_Witness ==
  /\ Generated
  /\ Len(image_files) = 2
  /\ Len(listing) = 2
  /\ LexBefore(listing[2], listing[1])
  /\ HasSection("table")

(* -------------------------------- C3 ----------------------------------- *)
\* C3: when the source path is not a directory, or holds no name ending with
\* ".png", the run never touches the output path and ends with status 1
\* before the write step.
C3_NoInputNoOutput ==
  (argc >= MinArgc /\ (srcKind # "dir" \/ MatchingNames = {})) =>
    /\ out = out0
    /\ pc \in {"start", "check_dir", "list", "check_empty", "exit"}
    /\ pc = "exit" => status = 1

\* witness: a run over a directory whose only entries do not match has ended,
\* with an earlier output file in place
C3_Witness ==
  /\ pc = "exit"
  /\ argc >= MinArgc
  /\ srcKind = "dir"
  /\ dir # <<>>
  /\ MatchingNames = {}
  /\ out0.exists

(* -------------------------------- C4 ----------------------------------- *)
\* C4 (as claimed): every argument count other than two is a usage error
\* that exits with status 1 at once, with the directory unread and the
\* output path untouched.
C4_AnyWrongCountIsUsageError ==
  (argc # MinArgc /\ pc # "start") =>
    /\ pc = "exit"
    /\ status = 1
    /\ stdout = <<"usage">>
    /\ ~listed
    /\ out = out0

\* C4 (amended): fewer than two arguments is a usage error that exits with
\* status 1 at once, with the directory unread and the output path
\* untouched; two or more arguments are never a usage error.
C4_TooFewIsUsageError ==
  /\ (argc < MinArgc /\ pc # "start") =>
       /\ pc = "exit"
       /\ status = 1
       /\ stdout = <<"usage">>
       /\ ~listed
       /\ out = out0
  /\ (argc >= MinArgc) => \A k \in DOMAIN stdout : stdout[k] # "usage"

\* witness: a run with one argument has ended, over a directory that holds a
\* matching file
C4_Witness ==
  /\ argc = MinArgc - 1
  /\ pc = "exit"
  /\ srcKind = "dir"
  /\ MatchingNames # {}

(* -------------------------------- C5 ----------------------------------- *)
\* C5: when mkdtemp fails the routine returns "" at once: no entry is
\* attempted, no file is written and nothing is reported as extracted.
C5_MkdtempFailure ==
  (xpc # "start" /\ ~tmpCreated) =>
    /\ xpc = "returned"
    /\ ret = ""
    /\ attempted = <<>>
    /\ tmpFiles = <<>>
    /\ cout = <<>>

\* witness: the routine of a unit with two entries returned after mkdtemp
\* failed
C5_Witness ==
  /\ xpc = "returned"
  /\ ~tmpCreated
  /\ embedded_images_count = 2

(* -------------------------------- C6 ----------------------------------- *)
\* C6: with the directory created, the entries are attempted once each in
\* table order; an entry whose open failed has no file and no progress
\* report, every other attempted entry has both; the routine returns the
\* directory's path after the last entry, whichever entries failed.
C6_PerEntryFailure ==
  tmpCreated =>
    /\ xi <= embedded_images_count
    /\ attempted = [k \in 1..xi |-> embedded_images[k].name]
    /\ \A k \in DOMAIN attempted :
         \/ /\ \E j \in DOMAIN cerr : cerr[j] = attempted[k]
            /\ attempted[k] \notin DOMAIN tmpFiles
            /\ \A j \in DOMAIN cout : cout[j] # attempted[k]
         \/ /\ \A j \in DOMAIN cerr : cerr[j] # attempted[k]
            /\ attempted[k] \in DOMAIN tmpFiles
            /\ \E j \in DOMAIN cout : cout[j] = attempted[k]
    /\ Len(cout) + Len(cerr) = Len(attempted)
    /\ xpc = "returned" => ret = TempDir /\ xi = embedded_images_count

\* witness: the routine returned the path after the first entry failed and
\* the second was extracted
C6_Witness ==
  /\ xpc = "returned"
  /\ tmpCreated
  /\ Len(attempted) = 2
  /\ cerr = <<attempted[1]>>
  /\ cout = <<attempted[2]>>

(* -------------------------------- C7 ----------------------------------- *)
\* C7 (as claimed): in every generated output the table has one row per
\* matching file, in the order of the arrays; each row's name is the file's
\* name, its data reference denotes the array generated for that file, its
\* size is the file's byte count; the count constant is the number of rows.
C7_TableMatchesArrays ==
  Generated =>
    LET rows == Section(out.content, "table").rows IN
      /\ Len(rows) = Cardinality(MatchingNames)
      /\ Len(rows) = Len(OutArrays)
      /\ Section(out.content, "count").value = Len(rows)
      /\ \A k \in DOMAIN rows :
           /\ rows[k].name \in MatchingNames
           /\ rows[k].name = OutArrays[k].name
           /\ DefinitionsOf(out.content, rows[k].data) = {k + 1}
           /\ DefinitionsOf(out.content, rows[k].size) = {k + 1}
           /\ EntrySize(out.content, rows[k]) = Len(dir[rows[k].name].data)

\* C7, the part that holds: the rows, the arrays and the count constant
\* agree in number and order, each row names its file and uses the symbol of
\* the array at the same position, whose initializer has one element per
\* byte of that file
C7_TableMatchesArraysBySymbol ==
  Generated =>
    LET rows == Section(out.content, "table").rows IN
      /\ Len(rows) = Cardinality(MatchingNames)
      /\ Len(rows) = Len(OutArrays)
      /\ Section(out.content, "count").value = Len(rows)
      /\ \A k \in DOMAIN rows :
           /\ rows[k].name \in MatchingNames
           /\ rows[k].name = OutArrays[k].name
           /\ rows[k].data = OutArrays[k].sym
           /\ rows[k].size = OutArrays[k].sym
           /\ Len(Flatten(OutArrays[k].lines)) = Len(dir[rows[k].name].data)

(* -------------------------------- C8 ----------------------------------- *)
\* a literal 0xhh with two lowercase hexadecimal digits
IsHexLiteral(lit) ==
  /\ Len(lit) = 4
  /\ lit[1] = "0" /\ lit[2] = "x"
  /\ \A k \in {3, 4} :
       lit[k] \in {"0", "1", "2", "3", "4", "5", "6", "7", "8", "9",
                   "a", "b", "c", "d", "e", "f"}

\* C8: the array of a file of n bytes has ceil(n/16) lines; every line but
\* the last holds 16 literals, the last holds 1 to 16; the literals, in
\* order, are the file's bytes.
C8_SixteenPerLine ==
  \A s \in DOMAIN out.content :
    out.content[s].kind = "array" =>
      LET lines == out.content[s].lines
          data == dir[out.content[s].name].data
          n == Len(data)
      IN /\ Len(lines) = (n + 15) \div 16
         /\ \A l \in DOMAIN lines :
              /\ l < Len(lines) => Len(lines[l]) = 16
              /\ Len(lines[l]) >= 1 /\ Len(lines[l]) <= 16
              /\ \A k \in DOMAIN lines[l] : IsHexLiteral(lines[l][k])
         /\ Len(Flatten(lines)) = n
         /\ ArrayBytes(lines) = data

\* witness: an array of three lines whose last line holds fewer than 16
\* literals has been written
C8_Witness ==
  \E s \in DOMAIN out.content :
    /\ out.content[s].kind = "array"
    /\ Len(out.content[s].lines) = 3
    /\ Len(out.content[s].lines[3]) < 16

(* -------------------------------- C9 ----------------------------------- *)
\* C9: every array and every table row carries the symbol derived from its
\* file name alone; names that differ only outside hyphens and periods have
\* different symbols; and when all the embedded names differ pairwise in
\* that way, every row's symbol has one definition, its own file's array.
C9_SymbolNames ==
  /\ \A k \in DOMAIN OutArrays : IsSymbolOf(OutArrays[k].sym, OutArrays[k].name)
  /\ \A j, k \in DOMAIN OutArrays :
       DifferOnlyOutside(OutArrays[j].name, OutArrays[k].name)
         => OutArrays[j].sym # OutArrays[k].sym
  /\ HasSection("table") =>
       LET rows == Section(out.content, "table").rows IN
         /\ \A k \in DOMAIN rows :
              IsSymbolOf(rows[k].data, rows[k].name) /\ rows[k].size = rows[k].data
         /\ (\A j, k \in DOMAIN rows :
               j # k => DifferOnlyOutside(rows[j].name, rows[k].name))
              => \A j, k \in DOMAIN rows :
                   /\ DefinitionsOf(out.content, rows[k].data) = {k + 1}
                   /\ j # k => rows[j].data # rows[k].data

\* witness: the table of two files whose names differ in one letter only has
\* been written
C9_Witness ==
  /\ HasSection("table")
  /\ Len(image_files) = 2
  /\ DifferOnlyOutside(image_files[1], image_files[2])

(* -------------------------------- C10 ---------------------------------- *)
\* C10 (as claimed): after any run the output path is untouched or holds a
\* complete compilation unit.
C10_UntouchedOrComplete ==
  pc = "exit" => (out = out0 \/ CompleteUnit)

\* the output path holds the header and the arrays of the files sorted
\* before the first one that could not be read
TruncatedUnit ==
  /\ out.exists
  /\ \E k \in 0..(Len(image_files) - 1) :
       /\ OutKinds = <<"header">> \o [j \in 1..k |-> "array"]
       /\ \A j \in 1..k : out.content[j + 1].name = image_files[j]
       /\ ~dir[image_files[k + 1]].readable

\* C10 (amended): after any run the output path is untouched (status 1),
\* holds a complete compilation unit (status 0), or holds a truncated unit,
\* a proper prefix of the complete one: when reading a matching entry failed
\* in the per-file loop, the header and the arrays of the files sorted
\* before that entry (status 1).
C10_UntouchedCompleteOrTruncated ==
  pc = "exit" =>
    \/ status = 1 /\ out = out0
    \/ status = 0 /\ CompleteUnit
    \/ status = 1 /\ TruncatedUnit

\* witness: a run ended with status 1 after it had written the header and one
\* array over an earlier output file
C10_Witness ==
  /\ pc = "exit"
  /\ status = 1
  /\ out0.exists
  /\ OutKinds = <<"header", "array">>

====
